---- MODULE Spec2Model ----
(***************************************************************************)
(* Rock shear-strength envelopes: BartonBandis.py (BBenv, BBscaling) and   *)
(* HoekBrown.py (HBenv, MCstrength_from_HBenv), with the calls a driver    *)
(* such as strengths_demo.py makes on them.                                *)
(*                                                                         *)
(* The source computes in IEEE double precision through numpy.  The model  *)
(* computes in a decimal floating point of six significant digits with the *)
(* same special values (nan, +inf, -inf): a number is m * 10^e with        *)
(* 100000 <= |m| <= 999999, or zero.  Every arithmetic step truncates to   *)
(* six digits, so equalities that hold in the source only up to rounding   *)
(* hold in the model only up to rounding too.                              *)
(***************************************************************************)
EXTENDS Integers, Sequences, FiniteSets, TLC

VARIABLES
    pc,      \* position of the single thread of control
    call,    \* the call in progress or last completed, with its arguments
    loc,     \* local variables of the HBenv call in progress
    out,     \* value the last completed call returned to its caller
    exc,     \* exception the last call propagated to its caller ("none" if none)
    stdout,  \* lines written to standard output
    q        \* the query made on a returned envelope, with its result

vars == <<pc, call, loc, out, exc, stdout, q>>

(***************************************************************************)
(* Floating point values.  The arithmetic is written as functions: a       *)
(* function is applied to the values of its arguments, as the source's     *)
(* arithmetic is.                                                          *)
(***************************************************************************)
Abs(n) == IF n < 0 THEN -n ELSE n

Floats == [k : {"num", "nan", "inf", "undef"}, m : Int, e : Int]

NaN == [k |-> "nan", m |-> 0, e |-> 0]
PInf == [k |-> "inf", m |-> 1, e |-> 0]
NInf == [k |-> "inf", m |-> -1, e |-> 0]
Zero == [k |-> "num", m |-> 0, e |-> 0]
\* a name that has not been assigned yet
Undef == [k |-> "undef", m |-> 0, e |-> 0]

IsNaN(a) == a.k = "nan"
IsInf(a) == a.k = "inf"
IsNum(a) == a.k = "num"
IsZero(a) == a.k = "num" /\ a.m = 0
IsDefined(a) == a.k # "undef"

\* -1, 0 or 1; meaningless for nan
SignOf(a) == IF a.m > 0 THEN 1 ELSE IF a.m < 0 THEN -1 ELSE 0

\* sg * n * 10^e with n >= 0, cut to six digits; overflow gives an infinity
\* and underflow gives zero, as in IEEE arithmetic
Norm[sg \in Int, n \in Int, e \in Int] ==
    IF n = 0 \/ sg = 0 THEN Zero
    ELSE IF n >= 1000000 THEN Norm[sg, n \div 10, e + 1]
    ELSE IF n < 100000 THEN Norm[sg, n * 10, e - 1]
    ELSE IF e > 60 THEN (IF sg > 0 THEN PInf ELSE NInf)
    ELSE IF e < -60 THEN Zero
    ELSE [k |-> "num", m |-> sg * n, e |-> e]

\* the float n * 10^(-d) for an integer n: a decimal literal of the source
Dec(n, d) == Norm[IF n < 0 THEN -1 ELSE 1, Abs(n), -d]
FromInt(n) == Dec(n, 0)

One == FromInt(1)

FNeg[a \in Floats] == IF IsNum(a) \/ IsInf(a) THEN [a EXCEPT !.m = -a.m] ELSE a

FAbs[a \in Floats] == IF IsNum(a) \/ IsInf(a) THEN [a EXCEPT !.m = Abs(a.m)] ELSE a

Pow10Int[n \in Int] == IF n <= 0 THEN 1 ELSE 10 * Pow10Int[n - 1]

\* sum of two numbers, the first with the larger exponent
AddAligned[a \in Floats, b \in Floats] ==
    LET d == a.e - b.e
        g == IF d > 3 THEN 3 ELSE d
        S == a.m * Pow10Int[g] + SignOf(b) * (Abs(b.m) \div Pow10Int[d - g])
    IN  IF d > 9 THEN a
        ELSE Norm[IF S < 0 THEN -1 ELSE 1, Abs(S), a.e - g]

FAdd[a \in Floats, b \in Floats] ==
    IF IsNaN(a) \/ IsNaN(b) THEN NaN
    ELSE IF IsInf(a) /\ IsInf(b) THEN (IF a.m = b.m THEN a ELSE NaN)
    ELSE IF IsInf(a) THEN a
    ELSE IF IsInf(b) THEN b
    ELSE IF a.m = 0 THEN b
    ELSE IF b.m = 0 THEN a
    ELSE IF a.e >= b.e THEN AddAligned[a, b]
    ELSE AddAligned[b, a]

FSub[a \in Floats, b \in Floats] == FAdd[a, FNeg[b]]

FMul[a \in Floats, b \in Floats] ==
    IF IsNaN(a) \/ IsNaN(b) THEN NaN
    ELSE IF IsInf(a) \/ IsInf(b)
         THEN (IF SignOf(a) * SignOf(b) = 0 THEN NaN
               ELSE IF SignOf(a) * SignOf(b) > 0 THEN PInf ELSE NInf)
    ELSE IF a.m = 0 \/ b.m = 0 THEN Zero
    ELSE LET a1 == Abs(a.m) \div 1000
             a0 == Abs(a.m) % 1000
             b1 == Abs(b.m) \div 1000
             b0 == Abs(b.m) % 1000
         IN  \* |a.m| * |b.m| \div 1000, computed without leaving 32 bits
             Norm[SignOf(a) * SignOf(b),
                  (a1 * b1) * 1000 + (a1 * b0 + a0 * b1) + ((a0 * b0) \div 1000),
                  a.e + b.e + 3]

\* long division: steps more decimal digits of the quotient qt, r < d
LongDiv[qt \in Int, r \in Int, d \in Int, steps \in Int] ==
    IF steps = 0 THEN qt
    ELSE LongDiv[qt * 10 + ((r * 10) \div d), (r * 10) % d, d, steps - 1]

\* numpy division: a zero divisor gives nan or an infinity (with a warning)
FDiv[a \in Floats, b \in Floats] ==
    IF IsNaN(a) \/ IsNaN(b) THEN NaN
    ELSE IF IsInf(a) /\ IsInf(b) THEN NaN
    ELSE IF IsInf(a) THEN (IF SignOf(b) < 0 THEN FNeg[a] ELSE a)
    ELSE IF IsInf(b) THEN Zero
    ELSE IF b.m = 0 THEN (IF a.m = 0 THEN NaN
                          ELSE IF a.m > 0 THEN PInf ELSE NInf)
    ELSE IF a.m = 0 THEN Zero
    ELSE Norm[SignOf(a) * SignOf(b),
              LongDiv[Abs(a.m) \div Abs(b.m), Abs(a.m) % Abs(b.m), Abs(b.m), 7],
              a.e - b.e - 7]

\* comparisons: every comparison with nan is false
FLt[a \in Floats, b \in Floats] ==
    /\ ~IsNaN(a) /\ ~IsNaN(b)
    /\ IF IsInf(a) /\ IsInf(b) THEN a.m < b.m
       ELSE IF IsInf(a) THEN a.m < 0
       ELSE IF IsInf(b) THEN b.m > 0
       ELSE FSub[a, b].m < 0
FGt[a \in Floats, b \in Floats] == FLt[b, a]
FEq[a \in Floats, b \in Floats] == ~IsNaN(a) /\ ~IsNaN(b) /\ a = b
FLe[a \in Floats, b \in Floats] == FLt[a, b] \/ FEq[a, b]
FGe[a \in Floats, b \in Floats] == FLe[b, a]

(***************************************************************************)
(* Elementary functions, computed by range reduction and power series in   *)
(* the arithmetic above                                                    *)
(***************************************************************************)
LN10 == Dec(2302585, 6)
LOG10E == Dec(4342945, 7)
PI == Dec(3141593, 6)
HALFPI == Dec(1570796, 6)
QUARTERPI == Dec(7853982, 7)

\* the largest integer n <= a, for a number a of moderate size
FloorInt[a \in Floats] ==
    IF a.m = 0 THEN 0
    ELSE IF a.e >= 0 THEN a.m * Pow10Int[a.e]
    ELSE IF a.e < -6 THEN (IF a.m < 0 THEN -1 ELSE 0)
    ELSE a.m \div Pow10Int[-a.e]

\* t * 10^n
Scale10[t \in Floats, n \in Int] == Norm[SignOf(t), Abs(t.m), t.e + n]

\* sum + term * (r/k + r^2/(k(k+1)) + ...): the exponential series, summed
\* until a term vanishes
ExpSeries[r \in Floats, sum \in Floats, term \in Floats, k \in Int] ==
    IF IsNaN(sum) \/ IsZero(term) \/ k > 24 THEN sum
    ELSE ExpSeries[r, FAdd[sum, FMul[term, FDiv[r, FromInt(k)]]],
                   FMul[term, FDiv[r, FromInt(k)]], k + 1]

\* 10^(n + f) for an integer n and 0 <= f < 1
Exp10Parts[n \in Int, f \in Floats] ==
    Scale10[ExpSeries[FMul[f, LN10], One, One, 1], n]

\* 10^y
Exp10[y \in Floats] ==
    IF IsNaN(y) THEN NaN
    ELSE IF IsInf(y) THEN (IF y.m > 0 THEN PInf ELSE Zero)
    ELSE IF FGt[y, FromInt(70)] THEN PInf
    ELSE IF FLt[y, FromInt(-70)] THEN Zero
    ELSE Exp10Parts[FloorInt[y], FSub[y, FromInt(FloorInt[y])]]

\* np.exp
Exp[x \in Floats] == Exp10[FMul[x, LOG10E]]

\* sum + pw * (1/(2k+1) + w/(2k+3) + w^2/(2k+5) + ...): with w = z^2 the
\* series of atanh(z)/z, with w = -z^2 the series of atan(z)/z
OddSeries[w \in Floats, sum \in Floats, pw \in Floats, k \in Int] ==
    IF IsNaN(sum) \/ IsZero(pw) \/ k > 14 THEN sum
    ELSE OddSeries[w, FAdd[sum, FDiv[pw, FromInt(2 * k + 1)]], FMul[pw, w], k + 1]

\* atanh(z) and atan(z) for a small z
AtanhSmall[z \in Floats] == FMul[z, OddSeries[FMul[z, z], Zero, One, 0]]
AtanSmall[z \in Floats] == FMul[z, OddSeries[FNeg[FMul[z, z]], Zero, One, 0]]

\* log(t * 10^ex) for t in [0.316, 3.17)
LogParts[t \in Floats, ex \in Int] ==
    FAdd[FMul[FromInt(2), AtanhSmall[FDiv[FSub[t, One], FAdd[t, One]]]],
         FMul[FromInt(ex), LN10]]

\* np.log: the natural logarithm; log(0) = -inf and log(negative) = nan
Log[x \in Floats] ==
    IF IsNaN(x) THEN NaN
    ELSE IF IsInf(x) THEN (IF x.m > 0 THEN PInf ELSE NaN)
    ELSE IF x.m = 0 THEN NInf
    ELSE IF x.m < 0 THEN NaN
    ELSE IF x.m >= 316228 THEN LogParts[[x EXCEPT !.e = -6], x.e + 6]
    ELSE LogParts[[x EXCEPT !.e = -5], x.e + 5]

\* np.log10
Log10[x \in Floats] == FDiv[Log[x], LN10]

\* whether the number a is a whole number
IsWhole(a) ==
    IsNum(a) /\ (a.m = 0 \/ a.e >= 0 \/ (a.e >= -5 /\ a.m % Pow10Int[-a.e] = 0))

\* np.power and Python's ** on floats
Power[b \in Floats, p \in Floats] ==
    IF IsZero(p) THEN One
    ELSE IF IsNaN(b) \/ IsNaN(p) THEN NaN
    ELSE IF IsInf(b) /\ b.m > 0 THEN (IF SignOf(p) > 0 THEN PInf ELSE Zero)
    ELSE IF IsZero(b) THEN (IF SignOf(p) > 0 THEN Zero ELSE PInf)
    ELSE IF SignOf(b) < 0
         THEN (IF ~IsWhole(p) THEN NaN
               ELSE IF FloorInt[p] % 2 = 0 THEN Exp[FMul[p, Log[FNeg[b]]]]
               ELSE FNeg[Exp[FMul[p, Log[FNeg[b]]]]])
    ELSE Exp[FMul[p, Log[b]]]

\* np.sqrt
Sqrt[x \in Floats] ==
    IF IsNaN(x) THEN NaN
    ELSE IF SignOf(x) < 0 THEN NaN
    ELSE IF IsZero(x) \/ IsInf(x) THEN x
    ELSE Exp[FMul[Dec(5, 1), Log[x]]]

\* sum + term * (w/(k(k+1)) + w^2/(k(k+1)(k+2)(k+3)) + ...): with w = -r^2
\* the series of cos r (from k = 1) and of sin(r)/r (from k = 2)
TrigSeries[w \in Floats, sum \in Floats, term \in Floats, k \in Int] ==
    IF IsNaN(sum) \/ IsZero(term) \/ k > 24 THEN sum
    ELSE TrigSeries[w, FAdd[sum, FMul[term, FDiv[w, FromInt(k * (k + 1))]]],
                    FMul[term, FDiv[w, FromInt(k * (k + 1))]], k + 2]

\* tan r for r in [-pi/2, pi/2], with w = -r^2
TanReduced[r \in Floats, w \in Floats] ==
    FDiv[FMul[r, TrigSeries[w, One, One, 2]], TrigSeries[w, One, One, 1]]

\* x minus the multiple of pi nearest to it
ReducePi[x \in Floats] ==
    FSub[x, FMul[FromInt(FloorInt[FAdd[FDiv[x, PI], Dec(5, 1)]]), PI]]

\* np.tan of an angle in radians
Tan[x \in Floats] ==
    IF ~IsNum(x) THEN NaN
    ELSE TanReduced[ReducePi[x], FNeg[FMul[ReducePi[x], ReducePi[x]]]]

\* atan of a number in [0, 1]
AtanUnit[s \in Floats] ==
    IF FLe[s, Dec(4142, 4)] THEN AtanSmall[s]
    ELSE FAdd[QUARTERPI, AtanSmall[FDiv[FSub[s, One], FAdd[s, One]]]]

AtanPos[s \in Floats] ==
    IF IsInf(s) THEN HALFPI
    ELSE IF FLe[s, One] THEN AtanUnit[s]
    ELSE FSub[HALFPI, AtanUnit[FDiv[One, s]]]

\* np.arctan, in radians
Arctan[s \in Floats] ==
    IF IsNaN(s) THEN NaN
    ELSE IF SignOf(s) < 0 THEN FNeg[AtanPos[FNeg[s]]]
    ELSE AtanPos[s]

\* np.radians and np.degrees
Radians[d \in Floats] == FDiv[FMul[d, PI], FromInt(180)]
Degrees[r \in Floats] == FDiv[FMul[r, FromInt(180)], PI]

(***************************************************************************)
(* numpy array helpers                                                     *)
(***************************************************************************)
\* arrays of at most n elements drawn from S
RECURSIVE ArraysUpTo(_, _)
ArraysUpTo(S, n) ==
    IF n = 0 THEN {<<>>}
    ELSE LET shorter == ArraysUpTo(S, n - 1)
         IN  shorter \cup {Append(a, x) : a \in {b \in shorter : Len(b) = n - 1}, x \in S}

(***************************************************************************)
(* BartonBandis.py                                                         *)
(***************************************************************************)
\* the reference joint length, in metres
L0_metre == One
L0 == Dec(1, 1)

\* Ln/L0 raised to the power c*JRC0
BBfactor(JRC0, Ln, c) == Power[FDiv[Ln, L0], FMul[c, JRC0]]

\* BBscaling: <<JRCn, JCSn>>
BBscaling(JRC0, JCS0, Ln) ==
    <<FMul[JRC0, BBfactor(JRC0, Ln, Dec(-2, 2))],
      FMul[JCS0, BBfactor(JRC0, Ln, Dec(-3, 2))]>>

\* np.where(sig_n>0, sig_n, np.nan), for one element
BBpositive(x) == IF FGt[x, Zero] THEN x ELSE NaN

\* eq. 4 for one element: the friction angle in degrees
BBPhi(x, JRCn, JCSn, phi_r) == FAdd[FMul[JRCn, Log10[FDiv[JCSn, x]]], phi_r]

BBtau(x, Phi) == FMul[x, Tan[Radians[Phi]]]

\* np.where((Phi<85)&(tau>0), tau, np.nan), for one element
BBmask_anyShear(Phi, tau) == IF FLt[Phi, FromInt(85)] THEN tau ELSE NaN
BBmask(Phi, tau) == IF FLt[Phi, FromInt(85)] /\ FGt[tau, Zero] THEN tau ELSE NaN

\* BBenv: the array of shear strengths
BBenv(sig_n, JRC0, JCS0, phi_r, Ln) ==
    LET sc == BBscaling(JRC0, JCS0, Ln)
    IN  [i \in 1..Len(sig_n) |->
            LET x   == BBpositive(sig_n[i])
                Phi == BBPhi(x, sc[1], sc[2], phi_r)
            IN  BBmask(Phi, BBtau(x, Phi))]

(***************************************************************************)
(* HoekBrown.py                                                            *)
(***************************************************************************)
\* np.linspace(start, stop, n): n points, the last one stop itself
Linspace(start, stop, n) ==
    LET step == FDiv[FSub[stop, start], FromInt(n - 1)]
    IN  [i \in 1..n |-> IF i = n /\ ~IsNaN(step) THEN stop
                        ELSE FAdd[FMul[FromInt(i - 1), step], start]]

\* np.logspace(start, stop, n): 10 raised to np.linspace(start, stop, n)
Logspace(start, stop, n) ==
    LET y == Linspace(start, stop, n)
    IN  [i \in 1..n |-> Power[FromInt(10), y[i]]]

\* the order np.sort keeps: ascending, nan last
SortLe(a, b) == IsNaN(b) \/ FLe[a, b]

Insert[x \in Floats, sorted \in Seq(Floats)] ==
    IF sorted = <<>> THEN <<x>>
    ELSE IF SortLe(x, Head(sorted)) THEN <<x>> \o sorted
    ELSE <<Head(sorted)>> \o Insert[x, Tail(sorted)]

\* np.sort
Sort[arr \in Seq(Floats)] ==
    IF arr = <<>> THEN <<>> ELSE Insert[Head(arr), Sort[Tail(arr)]]

\* the number of points of the linear sample (200 in the source) and of the
\* logarithmic sample (50 in the source)
NLin == 5
NLog == 4

\* whether the divisions of eq. 3 and eq. 4, made on Python floats, raise
\* ZeroDivisionError
RaisesEq3(D) == IsZero(FSub[FromInt(28), FMul[FromInt(14), D]])
RaisesEq4(D) == IsZero(FSub[FromInt(9), FMul[FromInt(3), D]])

HBmb(GSI, D, mi) ==
    FMul[mi, Exp[FDiv[FSub[GSI, FromInt(100)], FSub[FromInt(28), FMul[FromInt(14), D]]]]]

HBs(GSI, D) ==
    Exp[FDiv[FSub[GSI, FromInt(100)], FSub[FromInt(9), FMul[FromInt(3), D]]]]

HBa(GSI) ==
    FAdd[Dec(5, 1),
         FDiv[FSub[Exp[FDiv[FNeg[GSI], FromInt(15)]], Exp[FDiv[FromInt(-20), FromInt(3)]]],
              FromInt(6)]]

HBsig_t(s, sig_ci, mb) == FDiv[FMul[FNeg[s], sig_ci], mb]

HBsig_cm(sig_ci, mb, s, a) ==
    FDiv[FMul[FMul[sig_ci,
                   FSub[FAdd[mb, FMul[FromInt(4), s]],
                        FMul[a, FSub[mb, FMul[FromInt(8), s]]]]],
              Power[FAdd[FMul[Dec(25, 2), mb], s], FSub[a, One]]],
         FMul[FMul[FromInt(2), FAdd[One, a]], FAdd[FromInt(2), a]]]

HBsig3max(sig_cm, uw, H) ==
    FMul[FMul[Dec(72, 2), sig_cm], Power[FDiv[sig_cm, FMul[uw, H]], Dec(-91, 2)]]

\* the locals of HBenv before any of them is assigned
HBlocals ==
    [mb |-> Undef, s |-> Undef, a |-> Undef, sig_t |-> Undef, sig_cm |-> Undef,
     sig3max |-> Undef, sig3 |-> <<>>, sig1 |-> <<>>, ds1s3 |-> <<>>,
     sign |-> <<>>, tau |-> <<>>]

\* the try block: the locals it leaves behind, assigned in order up to the
\* first statement that raises
HBderive(c) ==
    IF RaisesEq3(c.D) THEN HBlocals
    ELSE IF RaisesEq4(c.D) THEN [HBlocals EXCEPT !.mb = HBmb(c.GSI, c.D, c.mi)]
    ELSE LET mb     == HBmb(c.GSI, c.D, c.mi)
             s      == HBs(c.GSI, c.D)
             a      == HBa(c.GSI)
             sig_cm == HBsig_cm(c.sig_ci, mb, s, a)
         IN  [HBlocals EXCEPT !.mb = mb, !.s = s, !.a = a,
                              !.sig_t = HBsig_t(s, c.sig_ci, mb),
                              !.sig_cm = sig_cm,
                              !.sig3max = HBsig3max(sig_cm, c.uw, c.H)]

\* the upper bound HBenv returns
HBupper(sig3max) == FMul[FromInt(5), sig3max]

\* the exponents handed to np.logspace
HBlogStart(sig_t) == Log[FNeg[sig_t]]
HBlogStop(sig3max) == Log[HBupper(sig3max)]

\* the two samples of sigma3, before they are merged
HBlinear(sig_t) == Linspace(FMul[sig_t, Dec(9999, 4)], FMul[Dec(-9999, 4), sig_t], NLin)
HBlogarithmic(sig_t, sig3max) == Logspace(HBlogStart(sig_t), HBlogStop(sig3max), NLog)

HBsig3(sig_t, sig3max) == Sort[HBlinear(sig_t) \o HBlogarithmic(sig_t, sig3max)]

\* eq. 2, eq. 10, eq. 8 and eq. 9 for one sampled sigma3
HBbase(l, c, x) == FAdd[FDiv[FMul[l.mb, x], c.sig_ci], l.s]
HBsig1(l, c, x) == FAdd[x, FMul[c.sig_ci, Power[HBbase(l, c, x), l.a]]]
HBds1s3(l, c, x) ==
    FAdd[One, FMul[FMul[l.a, l.mb], Power[HBbase(l, c, x), FSub[l.a, One]]]]
HBsign(s1, s3, d) ==
    FSub[FDiv[FAdd[s1, s3], FromInt(2)],
         FDiv[FMul[FDiv[FSub[s1, s3], FromInt(2)], FSub[d, One]], FAdd[d, One]]]
HBtau(s1, s3, d) == FDiv[FMul[FSub[s1, s3], Sqrt[d]], FAdd[d, One]]

\* whether an array is finite and strictly increasing
StrictlyIncreasing(x) ==
    /\ \A i \in 1..Len(x) : IsNum(x[i])
    /\ \A i \in 1..(Len(x) - 1) : FLt[x[i], x[i + 1]]

(***************************************************************************)
(* The curve UnivariateSpline(sign, tau, s=0) returns.  The library is not *)
(* part of the repository.  The model keeps what the callers rely on: the  *)
(* curve passes through every point it was fitted to, it has a value and a *)
(* first derivative at every abscissa, and, fitted with the default ext=0, *)
(* it continues its end pieces outside [x[1], x[n]] instead of rejecting   *)
(* the abscissa.  Between two points the model follows the chord.          *)
(***************************************************************************)
Curve(x, y, valid) == [valid |-> valid, x |-> x, y |-> y]

\* the piece of the curve that serves abscissa v
RECURSIVE Piece(_, _, _)
Piece(c, v, i) ==
    IF i >= Len(c.x) - 1 THEN i
    ELSE IF FLt[v, c.x[i + 1]] THEN i
    ELSE Piece(c, v, i + 1)

Slope(c, i) == FDiv[FSub[c.y[i + 1], c.y[i]], FSub[c.x[i + 1], c.x[i]]]

\* sign_tau(v, 1)
Derivative(c, v) == IF IsNaN(v) THEN NaN ELSE Slope(c, Piece(c, v, 1))

\* sign_tau(v)
Evaluate(c, v) ==
    IF IsNaN(v) THEN NaN
    ELSE LET i == Piece(c, v, 1)
         IN  FAdd[c.y[i], FMul[Slope(c, i), FSub[v, c.x[i]]]]

\* sign[np.where((sign>sign_min)&(sign<=sign_max))]
MCfilter_closedBelow(sign, sign_min, sign_max) ==
    SelectSeq(sign, LAMBDA v : FGe[v, sign_min] /\ FLe[v, sign_max])
MCfilter_openAbove(sign, sign_min, sign_max) ==
    SelectSeq(sign, LAMBDA v : FGt[v, sign_min] /\ FLt[v, sign_max])
MCfilter(sign, sign_min, sign_max) ==
    SelectSeq(sign, LAMBDA v : FGt[v, sign_min] /\ FLe[v, sign_max])

MCphi(sign_tau, v) == Degrees[Arctan[Derivative(sign_tau, v)]]
MCcoh_sum(sign_tau, v) == FAdd[Evaluate(sign_tau, v), FMul[Derivative(sign_tau, v), v]]
MCcoh(sign_tau, v) == FSub[Evaluate(sign_tau, v), FMul[Derivative(sign_tau, v), v]]

\* MCstrength_from_HBenv: the filtered local sign, and the phi and coh returned
MCstrength_from_HBenv(sign, sign_tau, sign_min, sign_max) ==
    LET kept == MCfilter(sign, sign_min, sign_max)
    IN  [kept |-> kept,
         phi  |-> [i \in 1..Len(kept) |-> MCphi(sign_tau, kept[i])],
         coh  |-> [i \in 1..Len(kept) |-> MCcoh(sign_tau, kept[i])]]

(***************************************************************************)
(* The driver's calls                                                      *)
(***************************************************************************)
\* arrays a caller passes hold at most MaxLen elements
MaxLen == 2

\* joint parameters <<JRC0, JCS0, phi_r>> (strengths_demo.py lines 38-40)
JointSet ==
    { <<Dec(169, 1), FromInt(96), FromInt(29)>>,
      <<Dec(5, 1), FromInt(50), FromInt(26)>>,
      <<Dec(89, 1), FromInt(92), FromInt(28)>> }

\* joint lengths in metres: the reference length and two longer joints
LnSet == { Dec(1, 1), One, FromInt(10) }

\* normal stresses in MPa: inadmissible ones, one with a near-vertical
\* friction angle, an ordinary one and one past the joint's strength
SigNSet == { FromInt(-1), Zero, Dec(3, 2), One, FromInt(10000) }

\* rock-mass parameters: strengths_demo.py and the defaults of HBenv, with
\* disturbance factors and a material constant outside their physical range
GSISet == { FromInt(30), FromInt(60) }
DSet == { Dec(5, 1), Dec(7, 1), FromInt(2), FromInt(3) }
miSet == { FromInt(15), FromInt(-15) }
sig_ciSet == { FromInt(25) }
uwSet == { Dec(24, 3) }
HSet == { FromInt(20) }

\* normal stresses a caller asks about, besides the bounds HBenv returned
QuerySet == { FromInt(-1), Zero, One, FromInt(100) }
\* bounds a caller passes to MCstrength_from_HBenv, besides those returned
MinSet == { FromInt(-1), Zero }
MaxSet == { Zero, One }

NoCall == [op |-> "none"]
NoQuery == [op |-> "none"]
NoLocals == HBlocals

Init ==
    /\ pc = "idle"
    /\ call = NoCall
    /\ loc = NoLocals
    /\ out = <<>>
    /\ exc = "none"
    /\ stdout = <<>>
    /\ q = NoQuery

CallBBscaling ==
    /\ pc = "idle"
    /\ \E p \in JointSet, Ln \in LnSet :
        /\ call' = [op |-> "BBscaling", JRC0 |-> p[1], JCS0 |-> p[2], Ln |-> Ln,
                    again |-> FALSE]
        /\ out' = BBscaling(p[1], p[2], Ln)
    /\ pc' = "done"
    /\ UNCHANGED <<loc, exc, stdout, q>>

\* the driver scales the values a first scaling returned
CallBBscalingAgain ==
    /\ pc = "done"
    /\ call.op = "BBscaling"
    /\ ~call.again
    /\ \E Ln \in LnSet :
        /\ call' = [op |-> "BBscaling", JRC0 |-> out[1], JCS0 |-> out[2], Ln |-> Ln,
                    again |-> TRUE]
        /\ out' = BBscaling(out[1], out[2], Ln)
    /\ UNCHANGED <<pc, loc, exc, stdout, q>>

CallBBenv ==
    /\ pc = "idle"
    /\ \E sig_n \in ArraysUpTo(SigNSet, MaxLen), p \in JointSet, Ln \in LnSet :
        /\ call' = [op |-> "BBenv", sig_n |-> sig_n, JRC0 |-> p[1], JCS0 |-> p[2],
                    phi_r |-> p[3], Ln |-> Ln]
        /\ out' = BBenv(sig_n, p[1], p[2], p[3], Ln)
    /\ pc' = "done"
    /\ UNCHANGED <<loc, exc, stdout, q>>

\* HBenv is called: line 47 converts the arguments to floats
HBenvCall ==
    /\ pc = "idle"
    /\ \E GSI \in GSISet, D \in DSet, mi \in miSet, sig_ci \in sig_ciSet,
          uw \in uwSet, H \in HSet :
        call' = [op |-> "HBenv", GSI |-> GSI, D |-> D, mi |-> mi, sig_ci |-> sig_ci,
                 uw |-> uw, H |-> H]
    /\ loc' = HBlocals
    /\ pc' = "derive"
    /\ UNCHANGED <<out, exc, stdout, q>>

\* lines 50-62: the try block runs to its end
HBderiveDone ==
    /\ pc = "derive"
    /\ ~RaisesEq3(call.D) /\ ~RaisesEq4(call.D)
    /\ loc' = HBderive(call)
    /\ pc' = "sample"
    /\ UNCHANGED <<call, out, exc, stdout, q>>

\* lines 50-64: a statement of the try block raises; the bare except prints
\* and control falls through to line 67
HBderiveExcept ==
    /\ pc = "derive"
    /\ RaisesEq3(call.D) \/ RaisesEq4(call.D)
    /\ loc' = HBderive(call)
    /\ stdout' = Append(stdout, "Error computing intermediate Hoek-Brown values")
    /\ pc' = "sample"
    /\ UNCHANGED <<call, out, exc, q>>

\* line 67
HBsample ==
    /\ pc = "sample"
    /\ IsDefined(loc.sig_t) /\ IsDefined(loc.sig3max)
    /\ loc' = [loc EXCEPT !.sig3 = HBsig3(loc.sig_t, loc.sig3max)]
    /\ pc' = "transform"
    /\ UNCHANGED <<call, out, exc, stdout, q>>

\* line 67 reads a local that was never assigned
HBsampleUnbound ==
    /\ pc = "sample"
    /\ ~(IsDefined(loc.sig_t) /\ IsDefined(loc.sig3max))
    /\ exc' = "UnboundLocalError"
    /\ pc' = "raised"
    /\ UNCHANGED <<call, loc, out, stdout, q>>

\* lines 69-76
HBtransform ==
    /\ pc = "transform"
    /\ LET n     == Len(loc.sig3)
           sig1  == [i \in 1..n |-> HBsig1(loc, call, loc.sig3[i])]
           ds1s3 == [i \in 1..n |-> HBds1s3(loc, call, loc.sig3[i])]
       IN  loc' = [loc EXCEPT
                     !.sig1 = sig1,
                     !.ds1s3 = ds1s3,
                     !.sign = [i \in 1..n |-> HBsign(sig1[i], loc.sig3[i], ds1s3[i])],
                     !.tau = [i \in 1..n |-> HBtau(sig1[i], loc.sig3[i], ds1s3[i])]]
    /\ pc' = "fit"
    /\ UNCHANGED <<call, out, exc, stdout, q>>

\* lines 78-80: the library fits the curve and HBenv returns it with sig_t and
\* 5*sig3max
HBfit ==
    /\ pc = "fit"
    /\ StrictlyIncreasing(loc.sign)
    /\ out' = <<Curve(loc.sign, loc.tau, TRUE), loc.sig_t, HBupper(loc.sig3max)>>
    /\ pc' = "returned"
    /\ UNCHANGED <<call, loc, exc, stdout, q>>

\* line 78, abscissae not strictly increasing: a library that checks them
\* raises ValueError
HBfitRaises ==
    /\ pc = "fit"
    /\ ~StrictlyIncreasing(loc.sign)
    /\ exc' = "ValueError"
    /\ pc' = "raised"
    /\ UNCHANGED <<call, loc, out, stdout, q>>

\* lines 78-80, abscissae not strictly increasing: a library that only warns
\* hands back a curve that fits nothing, and HBenv returns it
HBfitWarns ==
    /\ pc = "fit"
    /\ ~StrictlyIncreasing(loc.sign)
    /\ out' = <<Curve(loc.sign, loc.tau, FALSE), loc.sig_t, HBupper(loc.sig3max)>>
    /\ pc' = "returned"
    /\ UNCHANGED <<call, loc, exc, stdout, q>>

\* the driver evaluates the returned curve: tau = sign_tau(sig_n)
EvaluateCurve ==
    /\ pc = "returned"
    /\ out[1].valid
    /\ \E sign \in ArraysUpTo(QuerySet \cup {out[3]}, MaxLen) :
        q' = [op |-> "evaluate", sign |-> sign,
              tau |-> [i \in 1..Len(sign) |-> Evaluate(out[1], sign[i])]]
    /\ pc' = "queried"
    /\ UNCHANGED <<call, loc, out, exc, stdout>>

\* the driver derives Mohr-Coulomb parameters from the returned curve
MCstrengthCall ==
    /\ pc = "returned"
    /\ out[1].valid
    /\ \E sign \in ArraysUpTo(QuerySet \cup {out[3]}, MaxLen),
          sign_min \in MinSet \cup {out[2]}, sign_max \in MaxSet \cup {out[3]} :
        q' = [op |-> "MCstrength_from_HBenv", sign |-> sign, sign_min |-> sign_min,
              sign_max |-> sign_max,
              ret |-> MCstrength_from_HBenv(sign, out[1], sign_min, sign_max)]
    /\ pc' = "queried"
    /\ UNCHANGED <<call, loc, out, exc, stdout>>

\* the driver is done with the result of a query
QueryDone ==
    /\ pc = "queried"
    /\ q' = NoQuery
    /\ pc' = "returned"
    /\ UNCHANGED <<call, loc, out, exc, stdout>>

\* the driver is done with the result of a call
Return ==
    /\ pc \in {"done", "returned", "raised"}
    /\ pc' = "idle"
    /\ call' = NoCall
    /\ loc' = NoLocals
    /\ out' = <<>>
    /\ exc' = "none"
    /\ stdout' = <<>>
    /\ q' = NoQuery

Next ==
    \/ CallBBscaling
    \/ CallBBscalingAgain
    \/ CallBBenv
    \/ HBenvCall
    \/ HBderiveDone
    \/ HBderiveExcept
    \/ HBsample
    \/ HBsampleUnbound
    \/ HBtransform
    \/ HBfit
    \/ HBfitRaises
    \/ HBfitWarns
    \/ EvaluateCurve
    \/ MCstrengthCall
    \/ QueryDone
    \/ Return

Spec == Init /\ [][Next]_vars

(***************************************************************************)
(* Properties                                                              *)
(***************************************************************************)
IsMCquery == pc = "queried" /\ q.op = "MCstrength_from_HBenv"
IsEvaluation == pc = "queried" /\ q.op = "evaluate"
IsBBenvResult == pc = "done" /\ call.op = "BBenv"
IsBBscalingResult == pc = "done" /\ call.op = "BBscaling"

\* |a - b| is at most a thousandth of the given scale
Within(a, b, scale) == FLe[FAbs[FSub[a, b]], FMul[Dec(1, 3), scale]]

Contains(arr, v) == \E i \in 1..Len(arr) : arr[i] = v

\* C1: when the derivation of the Hoek-Brown constants fails, the call fails
\* in that stage: nothing is printed, the stages after it are never entered
\* and no curve is returned.
C1_DerivationFailureSurfaced ==
    (call.op = "HBenv" /\ (RaisesEq3(call.D) \/ RaisesEq4(call.D)))
        => (stdout = <<>> /\ pc \in {"derive", "raised"})

\* C2: BBenv returns an array as long as sig_n whose element i is nan when
\* sig_n[i] <= 0, Phi[i] >= 85 or tau[i] <= 0, and is the number
\* sig_n[i]*tan(Phi[i]) otherwise; no element raises.
C2_BBenvElementwise ==
    IsBBenvResult =>
        /\ exc = "none"
        /\ Len(out) = Len(call.sig_n)
        /\ \A i \in 1..Len(call.sig_n) :
            LET x   == call.sig_n[i]
                sc  == BBscaling(call.JRC0, call.JCS0, call.Ln)
                Phi == FAdd[FMul[sc[1], Log10[FDiv[sc[2], x]]], call.phi_r]
                tau == FMul[x, Tan[Radians[Phi]]]
            IN  IF FLe[x, Zero] \/ FGe[Phi, FromInt(85)] \/ FLe[tau, Zero]
                THEN IsNaN(out[i])
                ELSE IsNum(out[i]) /\ out[i] = tau

\* a sweep whose first stress is inadmissible and whose second is not
C2_Witness ==
    /\ IsBBenvResult
    /\ Len(out) = 2
    /\ FLe[call.sig_n[1], Zero] /\ IsNaN(out[1])
    /\ IsNum(out[2])

\* the indices of sign that lie in (sign_min, sign_max]
RetainedIndices ==
    {i \in 1..Len(q.sign) : FLt[q.sign_min, q.sign[i]] /\ FLe[q.sign[i], q.sign_max]}

\* the k-th of them, in the order of the array
RetainedIndex(k) ==
    CHOOSE i \in RetainedIndices : Cardinality({j \in RetainedIndices : j <= i}) = k

\* C3: MCstrength_from_HBenv keeps exactly the values in (sign_min, sign_max],
\* in their order, and returns one phi = atan(tau') in degrees and one
\* coh = tau - tau'*x for each value x kept.
C3_MCstrengthFilters ==
    IsMCquery =>
        /\ Len(q.ret.phi) = Cardinality(RetainedIndices)
        /\ Len(q.ret.coh) = Cardinality(RetainedIndices)
        /\ \A k \in 1..Cardinality(RetainedIndices) :
            LET x == q.sign[RetainedIndex(k)]
            IN  /\ q.ret.phi[k] = Degrees[Arctan[Derivative(out[1], x)]]
                /\ q.ret.coh[k] = FSub[Evaluate(out[1], x), FMul[Derivative(out[1], x), x]]

\* a query whose first value is filtered out and whose second is kept
C3_Witness ==
    /\ IsMCquery
    /\ Len(q.sign) = 2
    /\ RetainedIndices = {2}
    /\ Len(q.ret.phi) = 1

\* C4: a normal stress outside [sig_t, 5*sig3max] is rejected, by the curve
\* HBenv returned and by MCstrength_from_HBenv called with the returned bounds:
\* no number comes back for it.
C4_OutOfDomainRejected ==
    /\ IsEvaluation =>
        \A i \in 1..Len(q.sign) :
            (FLt[q.sign[i], out[2]] \/ FGt[q.sign[i], out[3]]) => ~IsNum(q.tau[i])
    /\ (IsMCquery /\ q.sign_min = out[2] /\ q.sign_max = out[3]) =>
        \A k \in 1..Len(q.ret.kept) :
            FGe[q.ret.kept[k], out[2]] /\ FLe[q.ret.kept[k], out[3]]

\* C5: the points handed to the fit are strictly ascending in sigma_n, and a
\* call whose transform gave anything else returns no curve.
C5_FitGetsAscendingPoints ==
    (call.op = "HBenv" /\ pc \in {"fit", "returned", "queried"})
        => StrictlyIncreasing(loc.sign)

\* C6: for every value x kept by MCstrength_from_HBenv, x*tan(phi) + coh is
\* the curve's own value at x, up to rounding.
C6_TangentRoundTrip ==
    IsMCquery =>
        \A k \in 1..Len(q.ret.kept) :
            LET x       == q.ret.kept[k]
                rise    == FMul[x, Tan[Radians[q.ret.phi[k]]]]
                rebuilt == FAdd[rise, q.ret.coh[k]]
                direct  == Evaluate(out[1], x)
            IN  Within(rebuilt, direct,
                       FAdd[FAbs[rise], FAdd[FAbs[q.ret.coh[k]], FAbs[direct]]])

\* a kept value away from the origin, where the tangent has a slope
C6_Witness ==
    /\ IsMCquery
    /\ \E k \in 1..Len(q.ret.kept) :
        /\ q.ret.kept[k] = One
        /\ FGt[q.ret.phi[k], FromInt(10)]

ZeroRetained == Contains(q.ret.kept, Zero)

\* C7 as stated: a queried 0 is kept only if sign_min < 0 < sign_max, and is
\* filtered out in every other case.
C7_ZeroKeptOnlyStrictlyInside ==
    (IsMCquery /\ Contains(q.sign, Zero))
        => (ZeroRetained <=> (FLt[q.sign_min, Zero] /\ FLt[Zero, q.sign_max]))

\* C7 as amended: a queried 0 is kept exactly when sign_min < 0 <= sign_max.
C7_ZeroKeptInOpenClosed ==
    (IsMCquery /\ Contains(q.sign, Zero))
        => (ZeroRetained <=> (FLt[q.sign_min, Zero] /\ FLe[Zero, q.sign_max]))

\* 0 is queried with sign_max = 0 and is kept
C7_Witness ==
    /\ IsMCquery
    /\ Contains(q.sign, Zero)
    /\ q.sign_max = Zero
    /\ ZeroRetained

\* C8: at the reference length Ln = 0.1 BBscaling returns JRC0 and JCS0
\* unchanged, also when they are the result of an earlier scaling.
C8_ScalingAtReferenceLength ==
    (IsBBscalingResult /\ call.Ln = Dec(1, 1)) => out = <<call.JRC0, call.JCS0>>

\* values scaled to a longer joint are scaled again at the reference length
C8_Witness ==
    /\ IsBBscalingResult
    /\ call.again
    /\ call.Ln = Dec(1, 1)
    /\ \A p \in JointSet : call.JRC0 # p[1]
    /\ out = <<call.JRC0, call.JCS0>>

\* C9: no operation writes output, changes the arguments of the call in
\* progress or changes the curve it is queried on.
C9_PureOperations ==
    [][/\ stdout' = <<>>
       /\ (pc \in {"derive", "sample", "transform", "fit"} => call' = call)
       /\ (pc' = "queried" => out' = out)]_vars

\* whether the constants are those of a rock mass: sig_t < 0 < sig3max
PhysicalConstants == FLt[loc.sig_t, Zero] /\ FGt[loc.sig3max, Zero]

\* C10: the sigma3 sample is ascending, its logarithmic part starts at -sig_t
\* and ends at 5*sig3max, and so its largest value is the upper bound returned.
C10_SampleReachesUpperBound ==
    (call.op = "HBenv" /\ pc \in {"transform", "fit", "returned", "queried"}
                       /\ PhysicalConstants)
        => LET logpart == HBlogarithmic(loc.sig_t, loc.sig3max)
               upper   == HBupper(loc.sig3max)
           IN  /\ \A i \in 1..(Len(loc.sig3) - 1) : FLe[loc.sig3[i], loc.sig3[i + 1]]
               /\ Within(logpart[1], FNeg[loc.sig_t], FMul[FromInt(10), FNeg[loc.sig_t]])
               /\ Within(logpart[NLog], upper, FMul[FromInt(10), upper])
               /\ Within(loc.sig3[Len(loc.sig3)], upper, FMul[FromInt(10), upper])
====
